---------------------------- MODULE Spec2Model ----------------------------
(***************************************************************************)
(* txRedis, txredis/protocol.py: the RESP client protocol RedisBase.       *)
(*                                                                         *)
(* The model keeps the fields of one RedisBase instance (_buffer,          *)
(* _bulk_length, _disconnected, _multi_bulk_stack, _request_queue), the    *)
(* transport it writes to, the Deferreds handed out by getResponse, and    *)
(* the bytes the server has written that the reactor has not yet passed    *)
(* to dataReceived.  Bytes are one-character strings; a byte string is a   *)
(* sequence of them.                                                       *)
(***************************************************************************)
EXTENDS Integers, Sequences, FiniteSets, TLC

VARIABLES
    buffer,             \* self._buffer
    bulk_length,        \* self._bulk_length : <<>> is None, <<n>> is n
    disconnected,       \* self._disconnected
    multi_bulk_stack,   \* self._multi_bulk_stack : frames, innermost last
    request_queue,      \* self._request_queue : Deferred ids, oldest first
    config,             \* [password, db] given to __init__
    transport,          \* [state, written, disconnecting]
    deferreds,          \* nextD and the callback/errback calls made so far
    chain,              \* the Deferred chain built by connectionMade
    wire,               \* bytes sent by the server, not yet delivered
    obs,                \* observations of the run (history variables)
    feed,               \* the reply stream of the chunking experiment
    hiredis,            \* a HiRedisBase connection fed the same bytes
    packed              \* a call of _pack: its arguments and its output

vars == <<buffer, bulk_length, disconnected, multi_bulk_stack, request_queue,
          config, transport, deferreds, chain, wire, obs, feed, hiredis,
          packed>>

(***************************************************************************)
(* Bounds of the model.                                                    *)
(***************************************************************************)
MaxSends == 2
MaxWrites == 3
MaxFrames == 3
MaxPending == 2
MaxElems == 4
MaxArgs == 2

(***************************************************************************)
(* Bytes.                                                                  *)
(***************************************************************************)
CR == "\r"
LF == "\n"
SYM_CRLF == <<CR, LF>>
ERROR == "-"
SINGLE_LINE == "+"
INTEGER == ":"
BULK == "$"
MULTI_BULK == "*"

Digits == <<"0", "1", "2", "3", "4", "5", "6", "7", "8", "9">>
IsDigit(c) == \E i \in 1..10 : Digits[i] = c
DigitVal(c) == (CHOOSE i \in 1..10 : Digits[i] = c) - 1

(***************************************************************************)
(* Python values.  Every value is a record of the same shape, so that any  *)
(* two can be compared: t is the type, n an int, s a text, a a list.       *)
(***************************************************************************)
Val(t, n, s, a) == [t |-> t, n |-> n, s |-> s, a |-> a]
None == Val("None", 0, <<>>, <<>>)
PyStr(s) == Val("str", 0, s, <<>>)
PyIntVal(n) == Val("int", n, <<>>, <<>>)
PyList(a) == Val("list", 0, <<>>, a)
Exc(kind, s) == Val(kind, 0, s, <<>>)
InvalidResponse(data) == Exc("InvalidResponse", data)
TimeoutError == Exc("TimeoutError", <<>>)
NotConnected == Exc("RuntimeError", <<>>)
CancelledError == Exc("CancelledError", <<>>)

(***************************************************************************)
(* Python slices s[:n] and s[n:], negative n counting from the end.        *)
(***************************************************************************)
Clamp(n, len) == IF n < 0 THEN (IF len + n < 0 THEN 0 ELSE len + n)
                 ELSE (IF n > len THEN len ELSE n)
PyHead(s, n) == SubSeq(s, 1, Clamp(n, Len(s)))
PyTail(s, n) == SubSeq(s, Clamp(n, Len(s)) + 1, Len(s))

(***************************************************************************)
(* SYM_CRLF in buf, and buf.split(SYM_CRLF, 1).                            *)
(***************************************************************************)
CrlfAt(buf, i) == i + 1 <= Len(buf) /\ buf[i] = CR /\ buf[i + 1] = LF
HasCrlf(buf) == \E i \in 1..Len(buf) : CrlfAt(buf, i)
FirstCrlf(buf) == CHOOSE i \in 1..Len(buf) :
                     CrlfAt(buf, i) /\ \A j \in 1..(i - 1) : ~CrlfAt(buf, j)
SplitLine(buf) == [line |-> SubSeq(buf, 1, FirstCrlf(buf) - 1),
                   rest |-> SubSeq(buf, FirstCrlf(buf) + 2, Len(buf))]

(***************************************************************************)
(* int(text): surrounding blanks stripped, an optional sign, then one or   *)
(* more decimal digits.  IntOk is FALSE where Python raises ValueError.    *)
(***************************************************************************)
RECURSIVE LStrip(_)
LStrip(s) == IF s # <<>> /\ Head(s) = " " THEN LStrip(Tail(s)) ELSE s
RECURSIVE RStrip(_)
RStrip(s) == IF s # <<>> /\ s[Len(s)] = " "
             THEN RStrip(SubSeq(s, 1, Len(s) - 1)) ELSE s
Strip(s) == RStrip(LStrip(s))
Unsigned(s) == IF s # <<>> /\ Head(s) \in {"+", "-"} THEN Tail(s) ELSE s
RECURSIVE DecVal(_)
DecVal(s) == IF s = <<>> THEN 0
             ELSE 10 * DecVal(SubSeq(s, 1, Len(s) - 1)) + DigitVal(s[Len(s)])
IntOk(text) == LET u == Unsigned(Strip(text))
               IN  u # <<>> /\ \A i \in 1..Len(u) : IsDigit(u[i])
IntOf(text) == LET t == Strip(text)
               IN  IF Head(t) = "-" THEN 0 - DecVal(Unsigned(t))
                   ELSE DecVal(Unsigned(t))


(***************************************************************************)
(* The connection as one record: the fields of self, the transport and the *)
(* Deferreds.  The operators below are the methods of RedisBase; each      *)
(* takes the record and returns it as the method leaves it.                *)
(***************************************************************************)
Self == [buffer |-> buffer, bulk_length |-> bulk_length,
         disconnected |-> disconnected,
         multi_bulk_stack |-> multi_bulk_stack,
         request_queue |-> request_queue, config |-> config,
         transport |-> transport, deferreds |-> deferreds,
         chain |-> chain, obs |-> obs]

(***************************************************************************)
(* What the run records beside the program's state: nTop counts the        *)
(* top-level replies the decoder has completed; enq lists the Deferreds    *)
(* ever queued; queueAtClose is the queue length when loseConnection was   *)
(* called; raised tells whether the last dataReceived raised; lastErr and  *)
(* lastBad describe the last error line and the last malformed            *)
(* integer/length line of the last dataReceived.                           *)
(***************************************************************************)
NoErr == [seen |-> FALSE, queueEmpty |-> FALSE, raised |-> FALSE,
          settled |-> 0]
NoBad == [seen |-> FALSE, open |-> FALSE, pending |-> 0, settled |-> 0,
          raised |-> FALSE, rest |-> <<>>]
NoObs == [nTop |-> 0, raised |-> FALSE, enq |-> <<>>,
          queueAtClose |-> 0, lastErr |-> NoErr, lastBad |-> NoBad]

(***************************************************************************)
(* RedisBase.__init__ for a given db and password: db=None becomes 0.      *)
(***************************************************************************)
NewConnection(password, db) ==
    [buffer |-> <<>>, bulk_length |-> <<>>, disconnected |-> FALSE,
     multi_bulk_stack |-> <<>>, request_queue |-> <<>>,
     config |-> [password |-> password, db |-> db],
     transport |-> [state |-> "new", written |-> <<>>,
                    disconnecting |-> FALSE],
     deferreds |-> [nextD |-> 1, fired |-> <<>>, cancelled |-> {},
                    ignored |-> <<>>],
     chain |-> [at |-> "new", d |-> 0],
     obs |-> NoObs]

(***************************************************************************)
(* transport.write of the command packed by _send, and                     *)
(* transport.loseConnection.  The transport keeps what was written, by     *)
(* command name.                                                           *)
(***************************************************************************)
_send(s, command) ==
    [s EXCEPT !.transport.written = Append(@, command)]

loseConnection(s) ==
    [s EXCEPT !.transport.disconnecting = TRUE,
              !.obs.queueAtClose = Len(s.request_queue)]

(***************************************************************************)
(* getResponse: a Deferred already failed with RuntimeError when           *)
(* _disconnected, else a new Deferred appended to _request_queue.  The     *)
(* Deferred returned is number s.deferreds.nextD.                          *)
(***************************************************************************)
Fired(d, how, v, top) == [d |-> d, how |-> how, v |-> v, top |-> top]

\* getResponse without its test of _disconnected.
getResponseNoCheck(s) ==
    [s EXCEPT !.deferreds.nextD = @ + 1,
              !.request_queue = Append(@, s.deferreds.nextD),
              !.obs.enq = Append(@, s.deferreds.nextD)]

getResponse(s) ==
    LET d == s.deferreds.nextD
    IN  IF s.disconnected
        THEN [s EXCEPT !.deferreds.nextD = d + 1,
                       !.deferreds.fired =
                           Append(@, Fired(d, "errback", NotConnected, 0))]
        ELSE [s EXCEPT !.deferreds.nextD = d + 1,
                       !.request_queue = Append(@, d),
                       !.obs.enq = Append(@, d)]

send(s, command) == getResponse(_send(s, command))

(***************************************************************************)
(* The Deferred chain of connectionMade: d = succeed(True), then auth if a *)
(* password is set, then select if db is nonzero, then done_connecting.    *)
(* A callback added to a fired Deferred runs at once; one that returns a   *)
(* Deferred pauses the chain until that Deferred fires.  chain.at is the   *)
(* callback the chain is paused in, chain.d the Deferred it waits for.     *)
(***************************************************************************)
done_connecting(s) ==
    [s EXCEPT !.disconnected = FALSE, !.chain = [at |-> "done", d |-> 0]]

Await(s, at, d) ==
    IF \E i \in 1..Len(s.deferreds.fired) : s.deferreds.fired[i].d = d
    THEN [s EXCEPT !.chain = [at |-> "failed", d |-> 0]]
    ELSE [s EXCEPT !.chain = [at |-> at, d |-> d]]

auth(s) == Await(send(s, "AUTH"), "auth", s.deferreds.nextD)

select(s) == Await(send(s, "SELECT"), "select", s.deferreds.nextD)

\* The chain without its select callback.
afterAuthNoSelect(s) == done_connecting(s)

afterAuth(s) == IF s.config.db # 0 THEN select(s) ELSE done_connecting(s)

connectionMade(s) ==
    LET c == [s EXCEPT !.transport.state = "connected"]
    IN  IF s.config.password THEN auth(c) ELSE afterAuth(c)

(***************************************************************************)
(* Deferred.callback and Deferred.errback of Deferred d.  The call is      *)
(* recorded; if the connectionMade chain waits for d it resumes (callback) *)
(* or fails, skipping its remaining callbacks (errback).  A Deferred that  *)
(* was cancelled ignores the one call that follows its cancellation:       *)
(* deferreds.cancelled holds the Deferreds that will ignore a call,        *)
(* deferreds.ignored the calls ignored.                                    *)
(***************************************************************************)
Ignore(s, d, how, v, top) ==
    [s EXCEPT !.deferreds.cancelled = @ \ {d},
              !.deferreds.ignored = Append(@, Fired(d, how, v, top))]

callback(s, d, v, top) ==
    LET f == [s EXCEPT !.deferreds.fired = Append(@, Fired(d, "callback", v, top))]
    IN  IF d \in s.deferreds.cancelled THEN Ignore(s, d, "callback", v, top)
        ELSE IF s.chain.d = d /\ s.chain.at = "auth" THEN afterAuth(f)
        ELSE IF s.chain.d = d /\ s.chain.at = "select" THEN done_connecting(f)
        ELSE f

errback(s, d, v, top) ==
    LET f == [s EXCEPT !.deferreds.fired = Append(@, Fired(d, "errback", v, top))]
    IN  IF d \in s.deferreds.cancelled THEN Ignore(s, d, "errback", v, top)
        ELSE IF s.chain.d = d /\ s.chain.at \in {"auth", "select"}
        THEN [f EXCEPT !.chain = [at |-> "failed", d |-> 0]]
        ELSE f

(***************************************************************************)
(* Deferred.cancel of a Deferred returned by send.  getResponse makes the  *)
(* Deferred with no canceller, so cancel only fails it with CancelledError *)
(* and makes it ignore the call that comes later; _request_queue is not    *)
(* touched.  Cancelling a Deferred that has fired does nothing.            *)
(***************************************************************************)
HasFired(s, d) ==
    \E i \in 1..Len(s.deferreds.fired) : s.deferreds.fired[i].d = d

\* cancel with a canceller that takes the Deferred out of _request_queue.
cancelDequeue(s, d) ==
    IF HasFired(s, d) THEN s
    ELSE [errback(s, d, CancelledError, 0) EXCEPT
              !.deferreds.cancelled = @ \cup {d},
              !.request_queue = SelectSeq(@, LAMBDA q : q # d)]

cancel(s, d) ==
    IF HasFired(s, d) THEN s
    ELSE [errback(s, d, CancelledError, 0) EXCEPT
              !.deferreds.cancelled = @ \cup {d}]

popleft(s) == [s EXCEPT !.request_queue = Tail(@)]

(***************************************************************************)
(* failRequests(reason).                                                   *)
(***************************************************************************)
\* failRequests with an if in place of its while.
failRequestsFirst(s, reason) ==
    IF s.request_queue = <<>> THEN s
    ELSE errback(popleft(s), Head(s.request_queue), reason, 0)

RECURSIVE failRequests(_, _)
failRequests(s, reason) ==
    IF s.request_queue = <<>> THEN s
    ELSE failRequests(errback(popleft(s), Head(s.request_queue), reason, 0),
                      reason)

\* connectionLost without its assignment to _disconnected.
connectionLostNoFlag(s, reason) ==
    failRequests([s EXCEPT !.transport.state = "lost"], reason)

connectionLost(s, reason) ==
    failRequests([s EXCEPT !.disconnected = TRUE,
                           !.transport.state = "lost"], reason)

\* timeoutConnection with its two statements in the other order.
timeoutConnectionCloseFirst(s) ==
    failRequests(loseConnection(s), TimeoutError)

timeoutConnection(s) ==
    loseConnection(failRequests(s, TimeoutError))


(***************************************************************************)
(* errorReceived: the error class by prefix; errback of the oldest         *)
(* request if there is one, else the exception is raised.  The multi-bulk  *)
(* stack is not consulted.  With no frame open the line is a completed     *)
(* top-level reply.                                                        *)
(***************************************************************************)
ErrorReply(data) ==
    IF PyHead(data, 4) = <<"E", "R", "R", " ">>
    THEN Exc("ResponseError", PyTail(data, 4))
    ELSE IF PyHead(data, 9) = <<"N", "O", "S", "C", "R", "I", "P", "T", " ">>
    THEN Exc("NoScript", PyTail(data, 9))
    ELSE IF PyHead(data, 8) = <<"N", "O", "T", "B", "U", "S", "Y", " ">>
    THEN Exc("NotBusy", PyTail(data, 8))
    ELSE Exc("ResponseError", data)

CountTop(s) == IF s.multi_bulk_stack = <<>>
               THEN [s EXCEPT !.obs.nTop = @ + 1] ELSE s

TopOf(s) == IF s.multi_bulk_stack = <<>> THEN s.obs.nTop ELSE 0

\* errorReceived that drops the error when no request is queued.
errorReceivedDrop(s, data) ==
    LET c == CountTop(s)
    IN  IF s.request_queue # <<>>
        THEN errback(popleft(c), Head(s.request_queue), ErrorReply(data),
                     TopOf(c))
        ELSE c

errorReceived(s, data) ==
    LET c == CountTop(s)
    IN  IF s.request_queue # <<>>
        THEN errback(popleft(c), Head(s.request_queue), ErrorReply(data),
                     TopOf(c))
        ELSE [c EXCEPT !.obs.raised = TRUE]

(***************************************************************************)
(* responseReceived, handleMultiBulkElement, multiBulkDataReceived and     *)
(* handleCompleteMultiBulkData call one another.  A frame is               *)
(* [rem, isNone, elems]: [length-remaining, replies | None]; declared      *)
(* keeps the count the frame was pushed with.                              *)
(***************************************************************************)
Frame(rem, isNone) ==
    [rem |-> rem, isNone |-> isNone, elems |-> <<>>, declared |-> rem]
FrameReply(f) == IF f.isNone THEN None ELSE PyList(f.elems)
Top(s) == s.multi_bulk_stack[Len(s.multi_bulk_stack)]
SetTop(s, f) ==
    [s EXCEPT !.multi_bulk_stack[Len(s.multi_bulk_stack)] = f]
PopFrame(s) ==
    [s EXCEPT !.multi_bulk_stack = SubSeq(@, 1, Len(@) - 1)]

RECURSIVE responseReceived(_, _)
RECURSIVE handleMultiBulkElement(_, _)
RECURSIVE multiBulkDataReceived(_)
RECURSIVE handleCompleteMultiBulkData(_, _)

responseReceived(s, reply) ==
    IF s.multi_bulk_stack # <<>> THEN handleMultiBulkElement(s, reply)
    ELSE LET c == CountTop(s)
         IN  IF s.request_queue # <<>>
             THEN callback(popleft(c), Head(s.request_queue), reply,
                           c.obs.nTop)
             ELSE c

\* handleMultiBulkElement that leaves a full frame on the stack.
handleMultiBulkElementKeep(s, element) ==
    LET top == Top(s)
        new == [top EXCEPT !.elems = Append(@, element), !.rem = @ - 1]
    IN  IF top.isNone THEN [s EXCEPT !.obs.raised = TRUE]
        ELSE SetTop(s, new)

\* handleMultiBulkElement that inserts the element at the front.
handleMultiBulkElementFront(s, element) ==
    LET top == Top(s)
        new == [top EXCEPT !.elems = <<element>> \o @, !.rem = @ - 1]
    IN  IF top.isNone THEN [s EXCEPT !.obs.raised = TRUE]
        ELSE IF new.rem = 0 THEN multiBulkDataReceived(SetTop(s, new))
        ELSE SetTop(s, new)

handleMultiBulkElement(s, element) ==
    LET top == Top(s)
        new == [top EXCEPT !.elems = Append(@, element), !.rem = @ - 1]
    IN  IF top.isNone THEN [s EXCEPT !.obs.raised = TRUE]
        ELSE IF new.rem = 0 THEN multiBulkDataReceived(SetTop(s, new))
        ELSE SetTop(s, new)

multiBulkDataReceived(s) ==
    LET reply == FrameReply(Top(s))
        p == PopFrame(s)
    IN  IF p.multi_bulk_stack # <<>> THEN handleMultiBulkElement(p, reply)
        ELSE handleCompleteMultiBulkData(p, reply)

handleCompleteMultiBulkData(s, reply) == responseReceived(s, reply)

singleLineReceived(s, data) ==
    responseReceived(s, IF data = <<"n", "o", "n", "e">> THEN None
                        ELSE PyStr(data))

integerReceived(s, data) ==
    LET reply == IF IntOk(data) THEN PyIntVal(IntOf(data))
                 ELSE InvalidResponse(data)
    IN  IF s.multi_bulk_stack # <<>> THEN handleMultiBulkElement(s, reply)
        ELSE responseReceived(s, reply)

bulkDataReceived(s, data) ==
    responseReceived([s EXCEPT !.bulk_length = <<>>], data)


(***************************************************************************)
(* dataReceived.  DataLoop is the while loop; BulkData, BulkLine and       *)
(* MultiBulkLine are its branches for awaited bulk data, a '$' line and a  *)
(* '*' line.  Each branch either goes round the loop again (Again: a       *)
(* raised exception leaves the loop) or returns.  resetTimeout only        *)
(* restarts the inactivity timer, whose expiry is TimeoutConnection.       *)
(***************************************************************************)
NoteErr(before, after) ==
    [after EXCEPT !.obs.lastErr =
        [seen |-> TRUE, queueEmpty |-> before.request_queue = <<>>,
         raised |-> after.obs.raised,
         settled |-> Len(after.deferreds.fired) - Len(before.deferreds.fired)]]

NoteBad(before, after) ==
    [after EXCEPT !.obs.lastBad =
        [seen |-> TRUE, open |-> before.multi_bulk_stack # <<>>,
         pending |-> Len(before.request_queue),
         settled |-> Len(after.deferreds.fired) - Len(before.deferreds.fired),
         raised |-> after.obs.raised, rest |-> before.buffer]]

RECURSIVE DataLoop(_)
RECURSIVE Again(_)
RECURSIVE BulkData(_)
RECURSIVE BulkLine(_, _)
RECURSIVE MultiBulkLine(_, _)
RECURSIVE Line(_, _)

Again(s) == IF s.obs.raised THEN s ELSE DataLoop(s)

\* BulkData that waits for the payload but not for its terminator.
BulkDataEarly(s) ==
    LET n == s.bulk_length[1]
    IN  IF Len(s.buffer) < n THEN s
        ELSE Again(bulkDataReceived(
                 [s EXCEPT !.buffer = PyTail(s.buffer, n + 2)],
                 PyStr(PyHead(s.buffer, n))))

BulkData(s) ==
    LET n == s.bulk_length[1]
    IN  IF Len(s.buffer) < n + 2 THEN s
        ELSE Again(bulkDataReceived(
                 [s EXCEPT !.buffer = PyTail(s.buffer, n + 2)],
                 PyStr(PyHead(s.buffer, n))))

BulkLine(s, reply_data) ==
    IF ~IntOk(reply_data)
    THEN NoteBad(s, responseReceived(s, InvalidResponse(reply_data)))
    ELSE LET b == [s EXCEPT !.bulk_length = <<IntOf(reply_data)>>]
         IN  IF IntOf(reply_data) = -1 THEN Again(bulkDataReceived(b, None))
             ELSE Again(b)

\* MultiBulkLine without the completion of an array of length 0.
MultiBulkLineNoEmpty(s, reply_data) ==
    IF ~IntOk(reply_data)
    THEN NoteBad(s, responseReceived(s, InvalidResponse(reply_data)))
    ELSE LET multi_bulk_length == IntOf(reply_data)
         IN  IF multi_bulk_length = -1
             THEN multiBulkDataReceived(
                      [s EXCEPT !.multi_bulk_stack = Append(@, Frame(-1, TRUE))])
             ELSE Again([s EXCEPT !.multi_bulk_stack =
                            Append(@, Frame(multi_bulk_length, FALSE))])

MultiBulkLine(s, reply_data) ==
    IF ~IntOk(reply_data)
    THEN NoteBad(s, responseReceived(s, InvalidResponse(reply_data)))
    ELSE LET multi_bulk_length == IntOf(reply_data)
         IN  IF multi_bulk_length = -1
             THEN multiBulkDataReceived(
                      [s EXCEPT !.multi_bulk_stack = Append(@, Frame(-1, TRUE))])
             ELSE LET m == [s EXCEPT !.multi_bulk_stack =
                               Append(@, Frame(multi_bulk_length, FALSE))]
                  IN  IF multi_bulk_length = 0
                      THEN Again(multiBulkDataReceived(m))
                      ELSE Again(m)

Line(s, line) ==
    LET reply_type == PyHead(line, 1)[1]
        reply_data == PyTail(line, 1)
    IN  IF reply_type = ERROR
        THEN Again(NoteErr(s, errorReceived(s, reply_data)))
        ELSE IF reply_type = INTEGER
        THEN Again(IF IntOk(reply_data) THEN integerReceived(s, reply_data)
                   ELSE NoteBad(s, integerReceived(s, reply_data)))
        ELSE IF reply_type = SINGLE_LINE
        THEN Again(singleLineReceived(s, reply_data))
        ELSE IF reply_type = BULK THEN BulkLine(s, reply_data)
        ELSE IF reply_type = MULTI_BULK THEN MultiBulkLine(s, reply_data)
        ELSE Again(s)

DataLoop(s) ==
    IF s.buffer = <<>> THEN s
    ELSE IF s.bulk_length # <<>> THEN BulkData(s)
    ELSE IF ~HasCrlf(s.buffer) THEN s
    ELSE LET sp == SplitLine(s.buffer)
             c == [s EXCEPT !.buffer = sp.rest]
         IN  IF Len(sp.line) = 0 THEN DataLoop(c) ELSE Line(c, sp.line)

dataReceived(s, data) ==
    DataLoop([s EXCEPT !.buffer = @ \o data, !.obs.raised = FALSE,
                       !.obs.lastErr = NoErr, !.obs.lastBad = NoBad])


(***************************************************************************)
(* HiRedisBase: dataReceived feeds the bytes to self._reader, a            *)
(* hiredis.Reader, and takes replies from reader.gets() until it returns   *)
(* False.  The Reader is the streaming RESP parser of the hiredis library: *)
(* gets() returns the next complete reply, an error reply as a             *)
(* ResponseError instance (also as an element of an array), a null bulk or *)
(* null array as None, and raises a protocol error on a malformed line.    *)
(* st is "ok" (a reply, rest the bytes after it), "more" (gets() returns   *)
(* False) or "bad" (gets() raises).                                        *)
(***************************************************************************)
ReaderMore == [st |-> "more", v |-> None, rest |-> <<>>]
ReaderBad == [st |-> "bad", v |-> None, rest |-> <<>>]
ReaderOk(v, rest) == [st |-> "ok", v |-> v, rest |-> rest]

RECURSIVE ReaderReply(_), ReaderElements(_, _, _)
ReaderReply(buf) ==
    IF ~HasCrlf(buf) THEN ReaderMore
    ELSE
    LET line == SplitLine(buf).line
        rest == SplitLine(buf).rest
    IN  IF line = <<>> THEN ReaderBad
        ELSE
        LET type == Head(line)
            data == Tail(line)
        IN  IF type = SINGLE_LINE THEN ReaderOk(PyStr(data), rest)
            ELSE IF type = ERROR
            THEN ReaderOk(Exc("ResponseError", data), rest)
            ELSE IF type \notin {INTEGER, BULK, MULTI_BULK} \/ ~IntOk(data)
            THEN ReaderBad
            ELSE IF type = INTEGER THEN ReaderOk(PyIntVal(IntOf(data)), rest)
            ELSE IF IntOf(data) < -1 THEN ReaderBad
            ELSE IF IntOf(data) = -1 THEN ReaderOk(None, rest)
            ELSE IF type = BULK
            THEN IF Len(rest) < IntOf(data) + 2 THEN ReaderMore
                 ELSE ReaderOk(PyStr(SubSeq(rest, 1, IntOf(data))),
                               SubSeq(rest, IntOf(data) + 3, Len(rest)))
            ELSE ReaderElements(rest, IntOf(data), <<>>)

ReaderElements(buf, n, elems) ==
    IF n = 0 THEN ReaderOk(PyList(elems), buf)
    ELSE LET r == ReaderReply(buf)
         IN  IF r.st # "ok" THEN r
             ELSE ReaderElements(r.rest, n - 1, Append(elems, r.v))

\* A HiRedisBase connection: the connection record of RedisBase, whose
\* request queue and Deferreds it shares, the bytes held by its reader, and
\* the exception its last dataReceived raised ("" if none).
HiRedisBase(s) == [conn |-> s, reader |-> <<>>, raised |-> ""]

RECURSIVE HiGets(_)
HiGets(h) ==
    LET res == ReaderReply(h.reader)
        queue == h.conn.request_queue
        took == [h EXCEPT !.reader = res.rest]
    IN  IF res.st = "more" THEN h
        ELSE IF res.st = "bad" THEN [h EXCEPT !.raised = "ProtocolError"]
        ELSE IF queue = <<>> THEN [took EXCEPT !.raised = "IndexError"]
        ELSE IF res.v.t = "ResponseError"
        THEN HiGets([took EXCEPT !.conn =
                        errback(popleft(h.conn), Head(queue), res.v, 0)])
        ELSE IF res.v = PyStr(<<"n", "o", "n", "e">>)
        THEN HiGets([took EXCEPT !.conn =
                        callback(popleft(h.conn), Head(queue), None, 0)])
        ELSE HiGets([took EXCEPT !.conn =
                        callback(popleft(h.conn), Head(queue), res.v, 0)])

hiDataReceived(h, data) == HiGets([h EXCEPT !.reader = @ \o data])


(***************************************************************************)
(* The encoder.  A byte string of the encoder is a sequence of runs        *)
(* [c, n], n >= 1 copies of the byte c, no two neighbours with the same    *)
(* byte, so that strings longer than the 6000 bytes of _pack can be held.  *)
(* Join is SYM_EMPTY.join of two strings, BLen is len, Lit the byte string *)
(* of a text of one-byte characters, Str is str(n) for n >= 0.             *)
(***************************************************************************)
FlushLimit == 6000

Run(c, n) == [c |-> c, n |-> n]

Join(x, y) ==
    IF x = <<>> THEN y
    ELSE IF y = <<>> THEN x
    ELSE IF x[Len(x)].c = y[1].c
    THEN SubSeq(x, 1, Len(x) - 1)
             \o <<Run(y[1].c, x[Len(x)].n + y[1].n)>> \o Tail(y)
    ELSE x \o y

RECURSIVE JoinAll(_)
JoinAll(parts) ==
    IF parts = <<>> THEN <<>> ELSE Join(Head(parts), JoinAll(Tail(parts)))

RECURSIVE BLen(_)
BLen(x) == IF x = <<>> THEN 0 ELSE Head(x).n + BLen(Tail(x))

RECURSIVE Lit(_)
Lit(text) ==
    IF text = <<>> THEN <<>> ELSE Join(<<Run(Head(text), 1)>>, Lit(Tail(text)))

RECURSIVE Str(_)
Str(n) == IF n < 10 THEN <<Digits[n + 1]>>
          ELSE Str(n \div 10) \o <<Digits[(n % 10) + 1]>>

\* unicode.encode('utf8'), the text held as runs of characters: one byte
\* for an ASCII character, the two bytes C3 A9 for U+00E9.
RECURSIVE Utf8Run(_)
Utf8Run(r) ==
    IF r.c # "U+00E9" THEN <<r>>
    ELSE IF r.n = 1 THEN <<Run("C3", 1), Run("A9", 1)>>
    ELSE Join(<<Run("C3", 1), Run("A9", 1)>>, Utf8Run(Run(r.c, r.n - 1)))
RECURSIVE Utf8(_)
Utf8(text) ==
    IF text = <<>> THEN <<>> ELSE Join(Utf8Run(Head(text)), Utf8(Tail(text)))

\* The arguments of send: Token (a text), bytes and unicode (held as runs)
\* and int.
Token(text) == Val("Token", 0, text, <<>>)
PyBytes(x) == Val("bytes", 0, x, <<>>)
PyUnicode(text) == Val("unicode", 0, text, <<>>)

encode(value) ==
    IF value.t = "Token" THEN Lit(value.s)
    ELSE IF value.t = "bytes" THEN value.s
    ELSE IF value.t = "int" THEN Lit(Str(value.n))
    ELSE Utf8(value.s)

\* command.split(' ')
RECURSIVE SplitSpaces(_, _)
SplitSpaces(text, word) ==
    IF text = <<>> THEN <<word>>
    ELSE IF Head(text) = " " THEN <<word>> \o SplitSpaces(Tail(text), <<>>)
    ELSE SplitSpaces(Tail(text), Append(word, Head(text)))

Header(buff, arg) ==
    JoinAll(<<buff, Lit(<<BULK>>), Lit(Str(BLen(arg))), Lit(SYM_CRLF)>>)

\* The loop of _pack over the encoded arguments, with a flush that starts
\* the next buffer empty.
RECURSIVE PackLoopNoCrlf(_, _, _)
PackLoopNoCrlf(args, buff, output) ==
    IF args = <<>> THEN Append(output, buff)
    ELSE LET arg == Head(args)
         IN  IF BLen(buff) > FlushLimit \/ BLen(arg) > FlushLimit
             THEN PackLoopNoCrlf(Tail(args), <<>>,
                      output \o <<Header(buff, arg), arg>>)
             ELSE PackLoopNoCrlf(Tail(args),
                      JoinAll(<<Header(buff, arg), arg, Lit(SYM_CRLF)>>),
                      output)

RECURSIVE PackLoop(_, _, _)
PackLoop(args, buff, output) ==
    IF args = <<>> THEN Append(output, buff)
    ELSE LET arg == Head(args)
         IN  IF BLen(buff) > FlushLimit \/ BLen(arg) > FlushLimit
             THEN PackLoop(Tail(args), Lit(SYM_CRLF),
                      output \o <<Header(buff, arg), arg>>)
             ELSE PackLoop(Tail(args),
                      JoinAll(<<Header(buff, arg), arg, Lit(SYM_CRLF)>>),
                      output)

_pack(command, rest) ==
    LET args == (IF \E i \in 1..Len(command) : command[i] = " "
                 THEN [i \in 1..Len(SplitSpaces(command, <<>>)) |->
                          Token(SplitSpaces(command, <<>>)[i])]
                 ELSE <<Token(command)>>) \o rest
        buff == JoinAll(<<Lit(<<MULTI_BULK>>), Lit(Str(Len(args))),
                          Lit(SYM_CRLF)>>)
    IN  PackLoop([i \in 1..Len(args) |-> encode(args[i])], buff, <<>>)

NoPack == [command |-> <<>>, args |-> <<>>, output |-> <<>>, done |-> FALSE]

(***************************************************************************)
(* What the server writes: reply lines, each written at once.              *)
(***************************************************************************)
OK == <<"+", "O", "K", CR, LF>>
ERR == <<"-", "E", "R", "R", " ", "x", CR, LF>>
STAR1 == <<"*", "1", CR, LF>>
STARNULL == <<"*", "-", "1", CR, LF>>
BADINT == <<":", "x", CR, LF>>
BADBULK == <<"$", "x", CR, LF>>
BADSTAR == <<"*", "x", CR, LF>>

BULK1 == <<"$", "1", CR, LF, "a", CR, LF>>
STAR0 == <<"*", "0", CR, LF>>
STAR2 == <<"*", "2", CR, LF>>
NULLBULK == <<"$", "-", "1", CR, LF>>
BULK0 == <<"$", "0", CR, LF, CR, LF>>
BULK4 == <<"$", "4", CR, LF, "+", CR, LF, ":", CR, LF>>
INT7 == <<":", "7", CR, LF>>

Replies == {OK, ERR, STAR1, STARNULL, BADINT, BADBULK}

(***************************************************************************)
(* The state machine.  Install makes s the next state of the connection.   *)
(***************************************************************************)
Install(s) ==
    /\ buffer' = s.buffer
    /\ bulk_length' = s.bulk_length
    /\ disconnected' = s.disconnected
    /\ multi_bulk_stack' = s.multi_bulk_stack
    /\ request_queue' = s.request_queue
    /\ config' = s.config
    /\ transport' = s.transport
    /\ deferreds' = s.deferreds
    /\ chain' = s.chain
    /\ obs' = s.obs

\* The connection is s.
Is(s) ==
    /\ buffer = s.buffer
    /\ bulk_length = s.bulk_length
    /\ disconnected = s.disconnected
    /\ multi_bulk_stack = s.multi_bulk_stack
    /\ request_queue = s.request_queue
    /\ config = s.config
    /\ transport = s.transport
    /\ deferreds = s.deferreds
    /\ chain = s.chain
    /\ obs = s.obs

NoFeed == [stream |-> <<>>, pending |-> 0, writes |-> 0, sends |-> 0]

Init ==
    /\ \E password \in BOOLEAN, db \in {0, 1} :
           Is(NewConnection(password, db))
    /\ wire = <<>>
    /\ feed = NoFeed
    /\ hiredis = HiRedisBase(NewConnection(FALSE, 0))
    /\ packed = NoPack

\* The transport is connected: the reactor calls connectionMade.
ConnectionMade ==
    /\ transport.state = "new"
    /\ Install(connectionMade(Self))
    /\ UNCHANGED <<wire, feed, hiredis, packed>>

\* The caller calls send(command), at any time once it has the protocol.
Send ==
    /\ transport.state # "new"
    /\ feed.sends < MaxSends
    /\ Install(send(Self, "GET"))
    /\ feed' = [feed EXCEPT !.sends = @ + 1]
    /\ UNCHANGED <<wire, hiredis, packed>>

\* The server writes a reply line.
ServerWrite ==
    /\ transport.state = "connected"
    /\ feed.writes < MaxWrites
    /\ \E r \in Replies : wire' = wire \o r
    /\ feed' = [feed EXCEPT !.writes = @ + 1]
    /\ UNCHANGED <<buffer, bulk_length, disconnected, multi_bulk_stack,
                   request_queue, config, transport, deferreds, chain, obs,
                   hiredis, packed>>

\* The reactor passes the bytes on the wire up to the end of some line to
\* dataReceived in one call.  An exception out of dataReceived makes the
\* reactor drop the connection: no further data is delivered.
DataReceived ==
    /\ transport.state = "connected"
    /\ ~obs.raised
    /\ \E k \in 2..Len(wire) :
          /\ CrlfAt(wire, k - 1)
          /\ Install(dataReceived(Self, SubSeq(wire, 1, k)))
          /\ wire' = SubSeq(wire, k + 1, Len(wire))
    /\ UNCHANGED <<feed, hiredis, packed>>

\* The inactivity timer of TimeoutMixin expires; it is not started again.
TimeoutConnection ==
    /\ transport.state = "connected"
    /\ ~transport.disconnecting
    /\ Install(timeoutConnection(Self))
    /\ UNCHANGED <<wire, feed, hiredis, packed>>

\* The transport reports the loss of the connection.  What the server had
\* written is lost with it, and the server writes no more.
ConnectionLost ==
    /\ transport.state = "connected"
    /\ \E kind \in {"ConnectionDone", "ConnectionLost"} :
           Install(connectionLost(Self, Exc(kind, <<>>)))
    /\ wire' = <<>>
    /\ feed' = [feed EXCEPT !.writes = 0]
    /\ UNCHANGED <<hiredis, packed>>

Next ==
    \/ ConnectionMade
    \/ Send
    \/ ServerWrite
    \/ DataReceived
    \/ TimeoutConnection
    \/ ConnectionLost

Spec == Init /\ [][Next]_vars


(***************************************************************************)
(* The chunking experiment: a connection with feed.pending requests sent   *)
(* and queued receives the reply stream feed.stream, cut into non-empty    *)
(* chunks at arbitrary bytes, one dataReceived call per chunk.             *)
(***************************************************************************)
RECURSIVE Sends(_, _)
Sends(s, n) == IF n = 0 THEN s ELSE send(Sends(s, n - 1), "GET")

Pending(n) == Sends(connectionMade(NewConnection(FALSE, 0)), n)

Frames == {OK, ERR, STAR1, STARNULL, BADSTAR, BULK1}

RECURSIVE Streams(_)
Streams(n) ==
    IF n = 0 THEN {<<>>}
    ELSE Streams(n - 1) \cup
         {f \o st : f \in Frames, st \in Streams(n - 1)}

ChunkInit ==
    \E n \in 0..MaxPending, st \in Streams(MaxFrames) \ {<<>>} :
        /\ Is(Pending(n))
        /\ wire = st
        /\ feed = [stream |-> st, pending |-> n, writes |-> 0, sends |-> n]
        /\ hiredis = HiRedisBase(Pending(n))
        /\ packed = NoPack

\* One chunk is passed to dataReceived; the HiRedisBase connection gets the
\* same chunk, unless its dataReceived has raised before.
FeedChunk ==
    /\ ~obs.raised
    /\ \E k \in 1..Len(wire) :
          /\ Install(dataReceived(Self, SubSeq(wire, 1, k)))
          /\ hiredis' = IF hiredis.raised # "" THEN hiredis
                        ELSE hiDataReceived(hiredis, SubSeq(wire, 1, k))
          /\ wire' = SubSeq(wire, k + 1, Len(wire))
    /\ UNCHANGED <<feed, packed>>

ChunkNext == FeedChunk

SpecChunk == ChunkInit /\ [][ChunkNext]_vars


(***************************************************************************)
(* The bulk experiment: the chunking experiment on streams of well-formed  *)
(* frames with bulk strings, one of them empty and one whose payload holds *)
(* a CRLF and type markers.                                                *)
(***************************************************************************)
BulkFrames == {OK, BULK0, BULK1, BULK4, STAR2}

RECURSIVE BulkStreams(_)
BulkStreams(n) ==
    IF n = 0 THEN {<<>>}
    ELSE BulkStreams(n - 1) \cup
         {f \o st : f \in BulkFrames, st \in BulkStreams(n - 1)}

BulkInit ==
    \E n \in 0..MaxPending, st \in BulkStreams(MaxFrames) \ {<<>>} :
        /\ Is(Pending(n))
        /\ wire = st
        /\ feed = [stream |-> st, pending |-> n, writes |-> 0, sends |-> n]
        /\ hiredis = HiRedisBase(Pending(n))
        /\ packed = NoPack

SpecBulk == BulkInit /\ [][ChunkNext]_vars


(***************************************************************************)
(* The decoding experiment: a connection with feed.pending requests sent   *)
(* and queued receives well-formed replies without error lines, one or two *)
(* whole frames per dataReceived call; feed.stream is what it has received *)
(* so far.                                                                 *)
(***************************************************************************)
DFrames == {OK, INT7, BULK1, NULLBULK, STARNULL, STAR0, STAR1, STAR2}

DecodeInit ==
    \E n \in 0..MaxPending :
        /\ Is(Pending(n))
        /\ wire = <<>>
        /\ feed = [stream |-> <<>>, pending |-> n, writes |-> 0, sends |-> n]
        /\ hiredis = HiRedisBase(Pending(n))
        /\ packed = NoPack

Decode ==
    /\ feed.writes < MaxElems
    /\ \E f \in DFrames :
          /\ Install(dataReceived(Self, f))
          /\ feed' = [feed EXCEPT !.stream = @ \o f, !.writes = @ + 1]
    /\ UNCHANGED <<wire, hiredis, packed>>

DecodeTwo ==
    /\ feed.writes + 1 < MaxElems
    /\ \E f \in DFrames, g \in DFrames :
          /\ Install(dataReceived(Self, f \o g))
          /\ feed' = [feed EXCEPT !.stream = @ \o f \o g, !.writes = @ + 2]
    /\ UNCHANGED <<wire, hiredis, packed>>

DecodeNext == Decode \/ DecodeTwo

SpecDecode == DecodeInit /\ [][DecodeNext]_vars


(***************************************************************************)
(* The packing experiment: _pack is called, as _send calls it, with a      *)
(* command name and up to MaxArgs arguments; packed.output is the list of  *)
(* parts that _send writes to the transport one by one.                    *)
(***************************************************************************)
Commands == {<<"G", "E", "T">>,
             <<"C", "O", "N", "F", "I", "G", " ", "G", "E", "T">>}

Arguments == {PyBytes(Lit(<<"a">>)), PyIntVal(42), PyUnicode(Lit(<<"U+00E9", "a">>)),
              PyBytes(<<Run("x", FlushLimit)>>),
              PyBytes(<<Run("x", FlushLimit + 1)>>)}

RECURSIVE ArgLists(_)
ArgLists(n) ==
    IF n = 0 THEN {<<>>}
    ELSE ArgLists(n - 1) \cup
         {<<a>> \o rest : a \in Arguments, rest \in ArgLists(n - 1)}

PackInit ==
    /\ Is(connectionMade(NewConnection(FALSE, 0)))
    /\ wire = <<>>
    /\ feed = NoFeed
    /\ hiredis = HiRedisBase(NewConnection(FALSE, 0))
    /\ \E command \in Commands, args \in ArgLists(MaxArgs) :
           packed = [command |-> command, args |-> args, output |-> <<>>,
                     done |-> FALSE]

Pack ==
    /\ ~packed.done
    /\ packed' = [packed EXCEPT !.output = _pack(packed.command, packed.args),
                                !.done = TRUE]
    /\ UNCHANGED <<buffer, bulk_length, disconnected, multi_bulk_stack,
                   request_queue, config, transport, deferreds, chain, wire,
                   obs, feed, hiredis>>

PackNext == Pack

SpecPack == PackInit /\ [][PackNext]_vars


(***************************************************************************)
(* Cancellation: a connection without handshake, while it is connected,    *)
(* whose caller may also cancel a Deferred that send returned and that is  *)
(* still pending.                                                          *)
(***************************************************************************)
CancelInit ==
    /\ Is(NewConnection(FALSE, 0))
    /\ wire = <<>>
    /\ feed = NoFeed
    /\ hiredis = HiRedisBase(NewConnection(FALSE, 0))
    /\ packed = NoPack

Cancel ==
    /\ \E i \in 1..Len(request_queue) :
           Install(cancel(Self, request_queue[i]))
    /\ UNCHANGED <<wire, feed, hiredis, packed>>

CancelNext ==
    \/ ConnectionMade
    \/ Send
    \/ ServerWrite
    \/ DataReceived
    \/ Cancel

SpecCancel == CancelInit /\ [][CancelNext]_vars


(***************************************************************************)
(* Properties.                                                             *)
(***************************************************************************)
fired == deferreds.fired
FiredOf(d) == {i \in 1..Len(fired) : fired[i].d = d}
Rejections(queue, reason) ==
    [i \in 1..Len(queue) |-> Fired(queue[i], "errback", reason, 0)]
ConnectionWide(v) ==
    v.t \in {"TimeoutError", "ConnectionDone", "ConnectionLost", "RuntimeError"}

\* C1: once the whole stream has been fed, in chunks cut anywhere, the
\* requests settled, their values and their order, and the requests still
\* queued, are those of feeding the stream in one dataReceived call.
C1_ChunkIndependence ==
    wire = <<>> =>
        LET whole == dataReceived(Pending(feed.pending), feed.stream)
        IN  /\ fired = whole.deferreds.fired
            /\ request_queue = whole.request_queue

\* C2: with no timeout or loss of the connection and every top-level reply
\* finding a request queued, each request settled by the decoder is settled
\* by the completed top-level reply of its own rank: the k-th reply settles
\* the k-th request queued.
C2_PipelinedFifo ==
    (/\ transport.state = "connected"
     /\ ~transport.disconnecting
     /\ Cardinality({i \in 1..Len(fired) : fired[i].top >= 1}) = obs.nTop)
    => \A i \in 1..Len(fired) :
           /\ fired[i].top >= 1
           /\ fired[i].top <= Len(obs.enq)
           /\ obs.enq[fired[i].top] = fired[i].d

\* C3: no Deferred is fired twice, a Deferred still queued has not fired,
\* and once connectionLost has run every Deferred returned so far has fired.
C3_SettlesExactlyOnce ==
    /\ \A i, j \in 1..Len(fired) : fired[i].d = fired[j].d => i = j
    /\ \A k \in 1..Len(request_queue) : FiredOf(request_queue[k]) = {}
    /\ transport.state = "lost" =>
           \A d \in 1..(deferreds.nextD - 1) : FiredOf(d) # {}

C3_Witness ==
    /\ transport.state = "lost"
    /\ Len(fired) >= 3
    /\ \E i, j \in 1..Len(fired) :
           fired[i].how = "callback" /\ fired[j].how = "errback"

\* C4: connectionLost rejects every queued request, oldest first, with the
\* one reason it was given, resolves none and leaves the queue empty.
C4_ConnectionLostRejectsAll ==
    [][(transport.state = "connected" /\ transport'.state = "lost") =>
          /\ request_queue' = <<>>
          /\ \E kind \in {"ConnectionDone", "ConnectionLost"} :
                 deferreds'.fired =
                     fired \o Rejections(request_queue, Exc(kind, <<>>))]_vars

C4_Witness ==
    /\ transport.state = "lost"
    /\ request_queue = <<>>
    /\ \E i, j \in 1..Len(fired) :
           /\ i < j
           /\ fired[i].v.t = "ConnectionLost"
           /\ fired[j].v.t = "ConnectionLost"

\* C5: once connectionLost has run the queue is empty in every state, and
\* every send() returns a Deferred already failed with RuntimeError and
\* queues nothing.
C5_ClosedRejectsSends ==
    /\ [](transport.state = "lost" => request_queue = <<>>)
    /\ [][(transport.state = "lost" /\ deferreds'.nextD # deferreds.nextD) =>
             /\ request_queue' = <<>>
             /\ deferreds'.fired =
                    Append(fired, Fired(deferreds.nextD, "errback",
                                        NotConnected, 0))]_vars

C5_Witness ==
    /\ transport.state = "lost"
    /\ \E i \in 1..Len(fired) : fired[i].v = NotConnected

\* C6: timeoutConnection rejects every queued request, oldest first, with
\* TimeoutError, and the queue is empty when loseConnection is called.
C6_TimeoutRejectsAll ==
    [][(~transport.disconnecting /\ transport'.disconnecting) =>
          /\ request_queue' = <<>>
          /\ obs'.queueAtClose = 0
          /\ deferreds'.fired =
                 fired \o Rejections(request_queue, TimeoutError)]_vars

C6_Witness ==
    /\ transport.disconnecting
    /\ \E i, j \in 1..Len(fired) :
           i < j /\ fired[i].v = TimeoutError /\ fired[j].v = TimeoutError

\* C7: in every state after timeoutConnection has run no request is
\* queued: a send() fails at once and queues nothing.
C7_TimeoutCloses ==
    transport.disconnecting => request_queue = <<>>

\* C8: a malformed integer/length line is not raised out of dataReceived,
\* completes exactly one request when no array frame is open and a request
\* is queued, and does not stop the stream: with further requests queued,
\* dataReceived does not return with the complete lines that followed it
\* still in the buffer.
C8_MalformedDoesNotStop ==
    obs.lastBad.seen =>
        /\ ~obs.lastBad.raised
        /\ (~obs.lastBad.open /\ obs.lastBad.pending > 0)
               => obs.lastBad.settled = 1
        /\ obs.lastBad.pending > 1
               => ~(HasCrlf(obs.lastBad.rest) /\ buffer = obs.lastBad.rest)

\* C9: an error line decoded while no request is queued is raised out of
\* dataReceived and settles no request.
C9_ErrorWithEmptyQueueRaises ==
    (obs.lastErr.seen /\ obs.lastErr.queueEmpty) =>
        /\ obs.lastErr.raised
        /\ obs.raised
        /\ obs.lastErr.settled = 0

C9_Witness ==
    /\ obs.lastErr.seen
    /\ obs.lastErr.queueEmpty
    /\ obs.raised
    /\ Len(fired) >= 1

\* C10: every handshake command is written to the transport, and queued,
\* before every command of the caller.
C10_HandshakeFirst ==
    \A i, j \in 1..Len(transport.written) :
        i < j => ~(/\ transport.written[i] = "GET"
                   /\ transport.written[j] \in {"AUTH", "SELECT"})


\* The requests, by Deferred number, that sent command c, and whether such
\* a request completed without error or with one.
SentAs(c) == {i \in 1..Len(transport.written) : transport.written[i] = c}
Completed(c) ==
    \E i \in SentAs(c), k \in 1..Len(fired) :
        fired[k].d = i /\ fired[k].how = "callback"
Rejected(c) ==
    \E i \in SentAs(c), k \in 1..Len(fired) :
        fired[k].d = i /\ fired[k].how = "errback"

\* C11: once connectionMade has run, AUTH has been sent exactly if a
\* password is set; SELECT is sent only with a nonzero db and only after
\* AUTH (if any) completed without error, and then it is sent;
\* done_connecting has run only after every configured handshake command
\* completed without error; after a rejected AUTH, SELECT is not sent and
\* done_connecting has not run.
C11_HandshakeSequencing ==
    transport.state # "new" =>
        /\ (SentAs("AUTH") # {}) <=> config.password
        /\ Cardinality(SentAs("AUTH")) <= 1
        /\ Cardinality(SentAs("SELECT")) <= 1
        /\ SentAs("SELECT") # {} =>
               config.db # 0 /\ (config.password => Completed("AUTH"))
        /\ (config.db # 0 /\ (config.password => Completed("AUTH")))
               => SentAs("SELECT") # {}
        /\ chain.at = "done" =>
               /\ config.password => Completed("AUTH")
               /\ config.db # 0 => Completed("SELECT")
        /\ Rejected("AUTH") => SentAs("SELECT") = {} /\ chain.at # "done"

C11_Witness ==
    /\ config.password
    /\ config.db # 0
    /\ chain.at = "done"
    /\ Completed("SELECT")


\* The connection as it would be had no Deferred been cancelled, and the
\* calls made on Deferreds, ignored or not, after the first n and m.
Uncancelled(s) == [s EXCEPT !.deferreds.cancelled = {}]
CallsSince(ds, n, m) ==
    {ds.fired[i] : i \in (n + 1)..Len(ds.fired)}
        \cup {ds.ignored[i] : i \in (m + 1)..Len(ds.ignored)}

\* C12: a step that cancels a pending Deferred leaves _request_queue and
\* the decoder state as they are; and a dataReceived call on a connection
\* with cancelled requests pops the same requests, for the same replies
\* and leaves the same queue, as it does when nothing was cancelled: the
\* reply of a cancelled request pops that request and later requests keep
\* their own replies.
C12_CancelKeepsSlot ==
    [][/\ deferreds'.cancelled \ deferreds.cancelled # {} =>
              /\ request_queue' = request_queue
              /\ multi_bulk_stack' = multi_bulk_stack
              /\ buffer' = buffer
              /\ transport' = transport
       /\ (transport'.state = "connected" /\ Len(wire') < Len(wire)) =>
              LET data == SubSeq(wire, 1, Len(wire) - Len(wire'))
                  plain == dataReceived(Uncancelled(Self), data)
                  n == Len(fired)
                  m == Len(deferreds.ignored)
              IN  /\ request_queue' = plain.request_queue
                  /\ multi_bulk_stack' = plain.multi_bulk_stack
                  /\ {[d |-> c.d, how |-> c.how, v |-> c.v, top |-> c.top] :
                          c \in CallsSince(deferreds', n, m)}
                     = {[d |-> c.d, how |-> c.how, v |-> c.v, top |-> c.top] :
                          c \in CallsSince(plain.deferreds, n, m)}
      ]_vars

\* The reply of a cancelled request has arrived and was ignored, and a
\* request sent after it was then settled by a reply.
C12_Witness ==
    \E i \in 1..Len(deferreds.ignored), k \in 1..Len(fired) :
        /\ deferreds.ignored[i].top >= 1
        /\ fired[k].how = "callback"
        /\ fired[k].top > deferreds.ignored[i].top
        /\ fired[k].d > deferreds.ignored[i].d


\* What was done to which Deferred, oldest call first.
Outcomes(calls) ==
    [i \in 1..Len(calls) |-> [d |-> calls[i].d, how |-> calls[i].how]]

\* C13: after any chunks of a reply stream without malformed lines, a
\* HiRedisBase connection and a RedisBase connection that started with the
\* same pending requests have resolved or rejected the same requests in
\* the same order, hold the same request queue, and have both raised out
\* of dataReceived or both not.
C13_BackendEquivalence ==
    hiredis.raised # "ProtocolError" =>
        /\ Outcomes(fired) = Outcomes(hiredis.conn.deferreds.fired)
        /\ request_queue = hiredis.conn.request_queue
        /\ obs.raised <=> hiredis.raised = "IndexError"


\* The bytes passed to dataReceived in a step of the decoding experiment.
Fed == SubSeq(feed'.stream, Len(feed.stream) + 1, Len(feed'.stream))
NullValue(line) == IF line = STAR0 THEN PyList(<<>>) ELSE None

\* C14: when dataReceived gets just '$-1', '*-1' or '*0' with nothing
\* buffered, the decoder is not in bulk-wait afterwards and no frame of the
\* line stays on the stack.  With no frame open the reply (None for '$-1'
\* and '*-1', the empty list for '*0') resolves the oldest request, if any,
\* and nothing else; with a frame open that waits for more than one
\* element the reply is appended to that frame, whose counter goes down by
\* one, and no request is touched; if it was the frame's last element the
\* frame is completed and leaves the stack, and the oldest request is
\* popped only if that empties the stack.
C14_NullFraming ==
    [][(buffer = <<>> /\ Fed \in {NULLBULK, STARNULL, STAR0}) =>
          /\ bulk_length' = <<>>
          /\ buffer' = <<>>
          /\ IF multi_bulk_stack = <<>>
             THEN /\ multi_bulk_stack' = <<>>
                  /\ IF request_queue = <<>>
                     THEN request_queue' = <<>> /\ deferreds' = deferreds
                     ELSE /\ request_queue' = Tail(request_queue)
                          /\ fired' = Append(fired,
                                 Fired(Head(request_queue), "callback",
                                       NullValue(Fed), obs.nTop + 1))
             ELSE LET n == Len(multi_bulk_stack)
                      top == multi_bulk_stack[n]
                  IN  /\ request_queue' =
                             IF multi_bulk_stack' = <<>> /\ request_queue # <<>>
                             THEN Tail(request_queue) ELSE request_queue
                      /\ IF top.rem > 1
                         THEN /\ multi_bulk_stack' =
                                   [multi_bulk_stack EXCEPT ![n] =
                                       [top EXCEPT
                                           !.elems = Append(@, NullValue(Fed)),
                                           !.rem = @ - 1]]
                              /\ deferreds' = deferreds
                         ELSE Len(multi_bulk_stack') < n
      ]_vars

\* A null reply resolved a request, and a null and an empty array became
\* elements of an array that resolved another.
C14_Witness ==
    \E i \in 1..Len(fired), k \in 1..Len(fired) :
        /\ fired[i].v = None
        /\ fired[k].v = PyList(<<None, PyList(<<>>)>>)


\* The replies that the bytes buf hold in full, read by their declared
\* lengths and counts, and the bytes of the incomplete reply after them.
RECURSIVE Declared(_)
Declared(buf) ==
    LET r == ReaderReply(buf)
    IN  IF r.st = "ok" THEN <<r.v>> \o Declared(r.rest) ELSE <<>>
RECURSIVE Incomplete(_)
Incomplete(buf) ==
    LET r == ReaderReply(buf)
    IN  IF r.st = "ok" THEN Incomplete(r.rest) ELSE buf

\* The bytes the decoder has taken out of its buffer.
Consumed == PyHead(feed.stream, Len(feed.stream) - Len(wire) - Len(buffer))

\* C15: at every moment of the decoding experiment the requests settled
\* are the oldest ones, one for each reply that the consumed bytes hold in
\* full, each resolved with the reply's value as declared by the stream
\* (nested lists with their elements in order); and the stack is empty
\* exactly when the consumed bytes end with a complete reply, so that a
\* request is settled when its array closes, not before and not later.
C15_NestedArrays ==
    LET replies == Declared(Consumed)
        k == IF Len(replies) < feed.pending THEN Len(replies)
             ELSE feed.pending
    IN  /\ fired = [i \in 1..k |-> Fired(i, "callback", replies[i], i)]
        /\ request_queue = [i \in 1..(feed.pending - k) |-> k + i]
        /\ (multi_bulk_stack = <<>>) <=> (Incomplete(Consumed) = <<>>)

\* An array of depth 3 resolved a request.
C15_Witness ==
    \E i \in 1..Len(fired) :
        LET v == fired[i].v
        IN  /\ v.t = "list" /\ Len(v.a) > 0
            /\ v.a[1].t = "list" /\ Len(v.a[1].a) > 0
            /\ v.a[1].a[1].t = "list" /\ Len(v.a[1].a[1].a) > 0


\* The unified request of a list of tokens: '$', the length, CRLF, the
\* bytes, CRLF for each.
RECURSIVE BulkStrings(_)
BulkStrings(tokens) ==
    IF tokens = <<>> THEN <<>>
    ELSE JoinAll(<<Lit(<<"$">>), Lit(Str(BLen(Head(tokens)))), Lit(<<CR, LF>>),
                   Head(tokens), Lit(<<CR, LF>>), BulkStrings(Tail(tokens))>>)

\* C16: the parts returned by _pack, joined, are '*', the number of
\* tokens, CRLF and then one bulk string for each token: the words of the
\* command name split on spaces, then the encoded arguments, whichever
\* parts were flushed for crossing the 6000-byte limit.
C16_PackBytes ==
    packed.done =>
        LET words == SplitSpaces(packed.command, <<>>)
            tokens == [i \in 1..Len(words) |-> Lit(words[i])]
                          \o [i \in 1..Len(packed.args) |->
                                 encode(packed.args[i])]
        IN  JoinAll(packed.output)
                = JoinAll(<<Lit(<<"*">>), Lit(Str(Len(tokens))),
                            Lit(<<CR, LF>>), BulkStrings(tokens)>>)

\* _pack flushed because the buffer had grown past the limit, not the
\* argument.
C16_Witness ==
    /\ packed.done
    /\ Len(packed.output) = 3
    /\ BLen(packed.output[1]) > FlushLimit
    /\ BLen(packed.output[2]) <= FlushLimit


\* C17: every Deferred settled by a reply, rather than by the loss of the
\* connection, was popped when no array frame was open: the reply that
\* settled it was a completed top-level reply.
C17_PopOnlyAtTopLevel ==
    \A i \in 1..Len(fired) :
        ~ConnectionWide(fired[i].v) => fired[i].top >= 1


\* The bytes passed to dataReceived in a step of the chunking experiment.
Chunk == SubSeq(wire, 1, Len(wire) - Len(wire'))

\* C18: the decoder is in bulk-wait only for a length n >= 0 and only
\* while its buffer holds fewer than n + 2 bytes; a chunk that leaves the
\* buffer short of n + 2 bytes is only appended to it; a chunk that
\* completes them takes the n + 2 bytes out of the buffer (decoding goes
\* on with the bytes after them) and, at top level, resolves the oldest
\* request with exactly the first n bytes as one string.  Throughout, the
\* values delivered are those declared by the consumed bytes read by
\* length, so that no payload byte is taken for a terminator or a marker.
C18_BulkFraming ==
    /\ [](/\ bulk_length # <<>> =>
                bulk_length[1] >= 0 /\ Len(buffer) < bulk_length[1] + 2
          /\ LET replies == Declared(Consumed)
                 k == IF Len(replies) < feed.pending THEN Len(replies)
                      ELSE feed.pending
             IN  /\ [i \in 1..Len(fired) |-> fired[i].v]
                        = [i \in 1..k |-> replies[i]]
                 /\ (multi_bulk_stack = <<>> /\ bulk_length = <<>>)
                        <=> (Incomplete(Consumed) = <<>>))
    /\ [][bulk_length # <<>> =>
            LET n == bulk_length[1]
                all == buffer \o Chunk
            IN  IF Len(all) < n + 2
                THEN /\ buffer' = all
                     /\ UNCHANGED <<bulk_length, multi_bulk_stack,
                                    request_queue, deferreds>>
                ELSE /\ \E j \in (n + 2)..Len(all) :
                            buffer' = SubSeq(all, j + 1, Len(all))
                     /\ (multi_bulk_stack = <<>> /\ request_queue # <<>>) =>
                            fired'[Len(fired) + 1] =
                                Fired(Head(request_queue), "callback",
                                      PyStr(SubSeq(all, 1, n)), obs.nTop + 1)
         ]_vars

\* A bulk string holding CRLF and markers and an empty bulk string were
\* delivered as the two elements of an array.
C18_Witness ==
    \E i \in 1..Len(fired) :
        fired[i].v = PyList(<<PyStr(<<"+", CR, LF, ":">>), PyStr(<<>>)>>)


\* C19: between two dataReceived calls every frame on the stack has a list
\* of elements (not None), waits for at least one more element, and has
\* collected as many elements as its declared count less its counter.
C19_StackInvariant ==
    \A i \in 1..Len(multi_bulk_stack) :
        LET f == multi_bulk_stack[i]
        IN  /\ ~f.isNone
            /\ f.rem >= 1
            /\ Len(f.elems) + f.rem = f.declared

\* Two frames are open; the inner one has collected an empty array and
\* waits for its second element.
C19_Witness ==
    /\ Len(multi_bulk_stack) = 2
    /\ multi_bulk_stack[2].elems = <<PyList(<<>>)>>
    /\ multi_bulk_stack[2].rem = 1


\* C20: the commands written to the transport are those of the requests
\* that were queued (request number d is the d-th command written): a send
\* on a connection that connectionLost has closed, which queues nothing,
\* writes nothing.
C20_ClosedSendWritesNothing ==
    1..Len(transport.written) = {obs.enq[i] : i \in 1..Len(obs.enq)}

=============================================================================
